---- MODULE Spec2Model ----
(***************************************************************************)
(* Model of arduino/airgraident_displaycontrol.ino: the polling loop, the  *)
(* four-phase OLED display cycle (updateOLED), the ring of 20 uploadable   *)
(* bitmap slots (HandleDisplayUpload) and the remote summary state         *)
(* (HandleDisplaySet) and the four sensor refreshes (updateTVOC,           *)
(* updateCo2, updatePm25, updateTempHum).                                  *)
(*                                                                         *)
(* The sensor refreshes and updateOLED share nothing but currentMillis:    *)
(* the refreshes write only the sensor globals, updateOLED and the POST    *)
(* handlers write only the display globals.  Each specification follows    *)
(* loop() from the clock reading either through the four refreshes         *)
(* (SpecSampler) or straight to updateOLED (the display specifications,    *)
(* where the sensor globals keep their initial values).                    *)
(*                                                                         *)
(* Time.  The sketch keeps time in `unsigned long` milliseconds (32 bits   *)
(* on the ESP8266).  TLC integers are 32-bit signed, so the clock is       *)
(* counted in units of MsPerUnit = 4 ms: every interval of the sketch      *)
(* (1000, 2500, 5000, 3600000) and 2^32 are multiples of 4, so arithmetic  *)
(* modulo 2^32 ms on clock readings that are multiples of 4 ms is exactly  *)
(* arithmetic modulo 2^30 units.                                           *)
(***************************************************************************)
EXTENDS Integers, Sequences, FiniteSets, TLC

----------------------------------------------------------------------------
(* Bounds of the model (not program constants).                            *)

\* the display timer is observed at most MaxLag display intervals late
MaxLag == 2
\* number of d-fields one POST /uploadscreen carries
MaxFields == 2
\* PM_TO_AQI_US is applied to every raw value in -MaxPm .. MaxPm
MaxPm == 1010
\* consecutive ticks without the built-in summary are counted up to MaxRun
MaxRun == 5

----------------------------------------------------------------------------
(* Program constants and machine arithmetic.                               *)

MsPerUnit == 4
Ms(x) == x \div MsPerUnit

\* range of unsigned long / unsigned int: 2^32 ms = 2^30 units
ULONG_MOD == 2 ^ 30

USub(a, b) == (a - b + ULONG_MOD) % ULONG_MOD
UAdd(a, b) == (a + b) % ULONG_MOD
\* unary minus on an unsigned long
UNeg(a) == (ULONG_MOD - a) % ULONG_MOD
\* unsigned long -> long (dimg[i].last_updated = currentMillis)
ToLong(u) == IF u >= ULONG_MOD \div 2 THEN u - ULONG_MOD ELSE u
\* long -> unsigned long (usual arithmetic conversion in currentMillis - last_updated)
ToULong(s) == (s + ULONG_MOD) % ULONG_MOD

customDisplayMaxAge == Ms(60 * 60 * 1000)
tvocInterval == Ms(1000)
co2Interval == Ms(5000)
pm25Interval == Ms(5000)
tempHumInterval == Ms(2500)
DISPLAY_IMG_BYTE_LEN == 1024
MAX_DISPLAY_IMG == 20
Slots == 0 .. (MAX_DISPLAY_IMG - 1)

----------------------------------------------------------------------------
(* Inputs.                                                                 *)

\* a d-field value: its length and (abstractly) its bytes
EmptyPayload == [len |-> 0, bytes |-> ""]
ShortPayload == [len |-> 500, bytes |-> "short"]
BitmapA == [len |-> DISPLAY_IMG_BYTE_LEN, bytes |-> "bitmapA"]
BitmapB == [len |-> DISPLAY_IMG_BYTE_LEN, bytes |-> "bitmapB"]

\* the arguments of POST /uploadscreen requests (d-field index -> value)
\* that name at most MaxFields of the slots in S, with values from P
UploadArgs(S, P) ==
    UNION { [F -> P] :
              F \in { G \in SUBSET S : Cardinality(G) <= MaxFields } }

FieldNames == {"watt", "wattavg", "water", "watertoday", "garage", "garagetime"}

\* arguments of POST /setscreen2 requests: argument name -> string
\* (strings are sequences of characters)
NoArgs == << >>
OledIntervalArg(s) == [n \in {"oledInterval"} |-> s]

(* Display cycle and remote summary: two uploadable slots, clock readings  *)
(* up to the last one before the 32-bit millisecond clock wraps.           *)
MillisReadings ==
    { Ms(5000), Ms(10000), Ms(3600000), Ms(3605000), ULONG_MOD - Ms(5000) }
UploadRequests == UploadArgs({2, 7}, {EmptyPayload, ShortPayload, BitmapA})
SetRequests ==
    { NoArgs,
      OledIntervalArg(<<"a", "b", "c">>),
      [n \in {"watt", "oledInterval"} |->
          IF n = "watt" THEN <<"5">>
          ELSE <<"1", "8", "0", "0", "0", "0", "0">>] }

(* Slot store and ring: three uploadable slots, readings around the expiry *)
(* of a bitmap uploaded at 5000 ms; slot 15 is given two different bitmaps.*)
SlotMillisReadings == { Ms(5000), Ms(3600000), Ms(3605000) }
SlotUploadRequests ==
    { args \in UploadArgs({2, 7, 15},
                          {EmptyPayload, ShortPayload, BitmapA, BitmapB}) :
        \A i \in DOMAIN args : args[i] = BitmapB => i = 15 }
SlotSetRequests == { OledIntervalArg(<<"0">>) }

(* Remote summary fields: requests naming different subsets of the fields, *)
(* one naming only an argument the handler does not know, at loop times    *)
(* 100 ms and 200 ms and at the first display tick.                        *)
RemoteMillisReadings == { Ms(100), Ms(200), Ms(5000) }
RemoteSetRequests ==
    { NoArgs,
      [n \in {"watt"} |-> <<"5">>],
      [n \in {"wattavg"} |-> <<"6">>],
      [n \in {"colour"} |-> <<"r", "e", "d">>],
      [n \in {"watt", "garage", "oledInterval"} |->
          IF n = "watt" THEN <<"7">>
          ELSE IF n = "garage" THEN <<"u", "p">>
          ELSE <<"2", "5", "0", "0">>] }

(* Sensor refreshes: clock readings up to the twelfth TVOC interval (ten   *)
(* conditioning calls, then two measurements), and what the drivers hand   *)
(* back.  A temperature is counted in tenths of a degree Celsius and a     *)
(* relative humidity in tenths of a percent.                               *)
SamplerMillisReadings == { Ms(2500), Ms(5000), Ms(12000), Ms(15000) }
\* sgp41.executeConditioning: error code zero or not
ConditioningResults == { [error |-> FALSE], [error |-> TRUE] }
\* sgp41.measureRawSignals and the gas index algorithms: error code, and
\* the indices computed from the raw signals
MeasureResults ==
    { [error |-> TRUE, voc |-> 0, nox |-> 0],
      [error |-> FALSE, voc |-> 100, nox |-> 1],
      [error |-> FALSE, voc |-> 250, nox |-> 2] }
\* ag.getCO2_Raw(): an int, negative when the read failed
CO2Results == { -1, 400 }
\* ag.getPM2_Raw(): an int, negative when the read failed
PM2Results == { -1, 12 }
\* ag.periodicFetchData(): TMP_RH, whose error member the sketch ignores
TempHumResults ==
    { [t |-> 215, rh |-> 405, error |-> FALSE],
      [t |-> -200, rh |-> 557, error |-> FALSE],
      [t |-> 0, rh |-> 0, error |-> TRUE] }

(* All timestamps together: the sensor refreshes, the display timer under  *)
(* a shorter and a longer oledInterval, the remote summary stamp and the   *)
(* stamp of one uploadable slot.                                           *)
ClockMillisReadings == { Ms(2500), Ms(5000), Ms(10000) }
ClockUploadRequests == UploadArgs({7}, {EmptyPayload, BitmapA})
ClockSetRequests ==
    { OledIntervalArg(<<"2", "5", "0", "0">>),
      OledIntervalArg(<<"2", "0", "0", "0", "0">>) }

(* GenerateMetrics: every combination of the four hardware options, and   *)
(* for each quantity a negative and a non-negative value; -5.0 degrees     *)
(* Celsius is a positive Fahrenheit temperature.                           *)
MetricsMillisReadings == { Ms(996), Ms(5000) }
MetricsRoutes == {"/", "/metrics"}
MetricsPm25 == { 0 - 1, 0, 12 }
MetricsTVOC == { 0 - 1, 100 }
MetricsNOX == { 0 - 1, 1 }
MetricsCo2 == { 0 - 1, 400 }
MetricsTempc == { 0 - 200, 0 - 50, 215 }
MetricsHum == { 0 - 1, 40 }

(* PM_TO_AQI_US: every int around the range the function distinguishes,    *)
(* and a few far outside it.                                               *)
AqiInputs == ((0 - MaxPm) .. MaxPm) \cup {2000, 65535, 0 - 32768}

----------------------------------------------------------------------------
(* atoi, as used for the oledInterval argument.                            *)

DigitChars == <<"0", "1", "2", "3", "4", "5", "6", "7", "8", "9">>
IsDigit(ch) == \E d \in 1 .. 10 : DigitChars[d] = ch
DigitVal(ch) == (CHOOSE d \in 1 .. 10 : DigitChars[d] = ch) - 1

RECURSIVE AtoiDigits(_, _, _)
AtoiDigits(s, i, acc) ==
    IF i > Len(s) \/ ~IsDigit(s[i]) THEN acc
    ELSE AtoiDigits(s, i + 1, acc * 10 + DigitVal(s[i]))

\* optional sign, then decimal digits up to the first non-digit; 0 if none
Atoi(s) ==
    IF Len(s) > 0 /\ s[1] = "-" THEN 0 - AtoiDigits(s, 2, 0)
    ELSE IF Len(s) > 0 /\ s[1] = "+" THEN AtoiDigits(s, 2, 0)
    ELSE AtoiDigits(s, 1, 0)

\* oledInterval = atoi(...): int -> unsigned int, in clock units
ToInterval(s) == (Atoi(s) \div MsPerUnit) % ULONG_MOD

----------------------------------------------------------------------------
(* State.                                                                  *)

VARIABLES
    pc,               \* position in loop(): the call that comes next
    currentMillis,
    display_last_set,
    oledInterval,
    previousOled,
    dimg,             \* Slots -> [display, active, last_updated]
    displayActive,
    displayCycle,
    custom,           \* custom_watt, custom_wattavg, ... by field name
    drawn,            \* draw calls made by the latest updateOLED()
    tick,             \* trace of the latest updateOLED()
    seen,             \* what the display has shown up to the latest tick
    request,          \* arguments of the request handled by the latest handleClient()
    response,         \* what that handler sent
    conditioning_s,
    previousTVOC,
    TVOC,
    NOX,
    previousCo2,
    Co2,
    previousPm25,
    pm25,
    previousTempHum,
    tempc,            \* in tenths of a degree Celsius
    tempf,            \* in hundredths of a degree Fahrenheit
    hum,
    calls,            \* driver calls made so far in this loop() iteration
    hasPM,
    hasCO2,
    hasSHT,
    hasSGP41,
    aqi_arg,          \* argument of a call of PM_TO_AQI_US on its own
    aqi_ret           \* what that call returned

sensorVars == << conditioning_s, previousTVOC, TVOC, NOX, previousCo2, Co2,
                 previousPm25, pm25, previousTempHum, tempc, tempf, hum >>

configVars == << hasPM, hasCO2, hasSHT, hasSGP41 >>

vars == << pc, currentMillis, display_last_set, oledInterval, previousOled,
           dimg, displayActive, displayCycle, custom, drawn, tick, seen,
           request, response, sensorVars, calls, configVars,
           aqi_arg, aqi_ret >>

NoTick == [fired |-> FALSE, phases |-> << >>, scans |-> 0, examined |-> 0,
           from |-> 0]
\* no tick yet
NothingSeen == [at |-> 0 - 1, screen |-> "none", run |-> 0]
NoRequest == [route |-> "none", args |-> << >>]
NoResponse == [code |-> 0, body |-> << >>]
\* no call of PM_TO_AQI_US on its own
NoCall == [made |-> FALSE, value |-> 0]

InitLoop ==
    /\ pc = "loop"
    /\ currentMillis = 0
    /\ display_last_set = 0
    /\ oledInterval = Ms(5000)
    /\ previousOled = 0
    /\ dimg = [i \in Slots |-> [display |-> "zeros", active |-> FALSE,
                                last_updated |-> 0]]
    /\ displayActive = 0
    /\ displayCycle = 0
    /\ custom = [n \in FieldNames |-> << >>]
    /\ drawn = << >>
    /\ tick = NoTick
    /\ seen = NothingSeen
    /\ request = NoRequest
    /\ response = NoResponse
    /\ calls = << >>

InitSensors ==
    /\ conditioning_s = 10
    /\ previousTVOC = 0
    /\ TVOC = 0
    /\ NOX = 0
    /\ previousCo2 = 0
    /\ Co2 = 0
    /\ previousPm25 = 0
    /\ pm25 = 0
    /\ previousTempHum = 0
    /\ tempc = 0
    /\ tempf = 0
    /\ hum = 0

InitConfig ==
    /\ hasPM = TRUE
    /\ hasCO2 = TRUE
    /\ hasSHT = TRUE
    /\ hasSGP41 = TRUE

Init ==
    /\ InitLoop
    /\ InitSensors
    /\ InitConfig
    /\ aqi_arg = NoCall
    /\ aqi_ret = NoCall

\* a build with any hardware options, holding any sensor values
InitMetrics ==
    /\ InitLoop
    /\ hasPM \in BOOLEAN
    /\ hasCO2 \in BOOLEAN
    /\ hasSHT \in BOOLEAN
    /\ hasSGP41 \in BOOLEAN
    /\ conditioning_s = 0
    /\ previousTVOC = 0
    /\ TVOC \in MetricsTVOC
    /\ NOX \in MetricsNOX
    /\ previousCo2 = 0
    /\ Co2 \in MetricsCo2
    /\ previousPm25 = 0
    /\ pm25 \in MetricsPm25
    /\ previousTempHum = 0
    /\ tempc \in MetricsTempc
    /\ tempf = tempc * 18 + 3200
    /\ hum \in MetricsHum
    /\ aqi_arg = NoCall
    /\ aqi_ret = NoCall

\* PM_TO_AQI_US about to be applied to one raw value
InitAqi ==
    /\ InitLoop
    /\ InitSensors
    /\ InitConfig
    /\ \E raw \in AqiInputs : aqi_arg = [made |-> TRUE, value |-> raw]
    /\ aqi_ret = NoCall

----------------------------------------------------------------------------
(* updateOLED.                                                             *)

\* variant: the age test written with <= instead of <
IsDisplayableInclusive(img, now) ==
    img.active /\ USub(now, ToULong(img.last_updated)) <= customDisplayMaxAge

\* dimg[i].active && (currentMillis - dimg[i].last_updated < customDisplayMaxAge)
IsDisplayable(img, now) ==
    img.active /\ USub(now, ToULong(img.last_updated)) < customDisplayMaxAge

\* (display_last_set > 0) && (currentMillis - -display_last_set < customDisplayMaxAge)
RemoteIsShown(now, last_set) ==
    (last_set > 0) /\ (USub(now, UNeg(last_set)) < customDisplayMaxAge)

\* variant: phase 3 is followed by phase 1
NextCycleSkipsBuiltIn(c) == IF c = 3 THEN 1 ELSE c + 1

\* variant: the phase is advanced modulo 5
NextCycleModFive(c) == (c + 1) % 5

\* displayCycle = (displayCycle + 1) % 4, at the start of a tick
NextCycle(c) == (c + 1) % 4

\* variant: a custom phase without a slot skips two phases
SkipCustomTwice(c) == (c + 2) % 4

\* "no valid screens, go to the next screen"
SkipCustom(c) == (c + 1) % 4

\* variant: phase 2 without a summary advances instead of jumping to 0
SkipRemoteAdvances(c) == (c + 1) % 4

\* "no screen, so jump back to 0"
SkipRemote(c) == 0

\* variant: the scan examines the cursor's own slot first
RECURSIVE ScanSlotsFromCursor(_, _, _, _)
ScanSlotsFromCursor(imgs, now, c, i) ==
    IF i >= MAX_DISPLAY_IMG
    THEN [cursor |-> c, drew_screen |-> FALSE, examined |-> i]
    ELSE IF IsDisplayable(imgs[c], now)
         THEN [cursor |-> c, drew_screen |-> TRUE, examined |-> i + 1]
         ELSE ScanSlotsFromCursor(imgs, now, (c + 1) % MAX_DISPLAY_IMG, i + 1)

\* variant: the for loop runs MAX_DISPLAY_IMG - 1 times
RECURSIVE ScanSlotsOneShort(_, _, _, _)
ScanSlotsOneShort(imgs, now, c, i) ==
    IF i >= MAX_DISPLAY_IMG - 1
    THEN [cursor |-> c, drew_screen |-> FALSE, examined |-> i]
    ELSE LET n == (c + 1) % MAX_DISPLAY_IMG
         IN  IF IsDisplayable(imgs[n], now)
             THEN [cursor |-> n, drew_screen |-> TRUE, examined |-> i + 1]
             ELSE ScanSlotsOneShort(imgs, now, n, i + 1)

\* the for loop over the ring: i slots examined so far, cursor at c
RECURSIVE ScanSlots(_, _, _, _)
ScanSlots(imgs, now, c, i) ==
    IF i >= MAX_DISPLAY_IMG
    THEN [cursor |-> c, drew_screen |-> FALSE, examined |-> i]
    ELSE LET n == (c + 1) % MAX_DISPLAY_IMG
         IN  IF IsDisplayable(imgs[n], now)
             THEN [cursor |-> n, drew_screen |-> TRUE, examined |-> i + 1]
             ELSE ScanSlots(imgs, now, n, i + 1)

DrawScreen1 == [screen |-> "drawScreen1", index |-> -1]
DrawScreen2 == [screen |-> "drawScreen2", index |-> -1]
DrawCustomScreen(i) == [screen |-> "drawCustomScreen", index |-> i]

\* the body of updateOLED once the interval has elapsed
OledTick(cycle, cursor, imgs, now, last_set) ==
    LET c1 == NextCycle(cycle)
        custom_phase == (c1 = 1 \/ c1 = 3)
        scan == IF custom_phase THEN ScanSlots(imgs, now, cursor, 0)
                ELSE [cursor |-> cursor, drew_screen |-> FALSE, examined |-> 0]
        d1 == IF custom_phase /\ scan.drew_screen
              THEN << DrawCustomScreen(scan.cursor) >> ELSE << >>
        hop1 == custom_phase /\ ~scan.drew_screen
        c2 == IF hop1 THEN SkipCustom(c1) ELSE c1
        p2 == IF hop1 THEN << c1, c2 >> ELSE << c1 >>
        shown2 == (c2 = 2) /\ RemoteIsShown(now, last_set)
        hop2 == (c2 = 2) /\ ~RemoteIsShown(now, last_set)
        d2 == IF shown2 THEN Append(d1, DrawScreen2) ELSE d1
        c3 == IF hop2 THEN SkipRemote(c2) ELSE c2
        p3 == IF hop2 THEN Append(p2, c3) ELSE p2
        d3 == IF c3 = 0 THEN Append(d2, DrawScreen1) ELSE d2
    IN  [cycle |-> c3, cursor |-> scan.cursor, drawn |-> d3,
         trace |-> [fired |-> TRUE, phases |-> p3,
                    scans |-> IF custom_phase THEN 1 ELSE 0,
                    examined |-> scan.examined, from |-> cursor]]

----------------------------------------------------------------------------
(* The sensor refreshes.                                                   *)

displayVars == << display_last_set, oledInterval, previousOled, dimg,
                  displayActive, displayCycle, custom, drawn, tick, seen,
                  request, response >>

\* variant: the refresh is made half an interval early
ElapsedEarly(now, previous, interval) ==
    USub(UAdd(now, interval \div 2), previous) >= interval

\* variant: the interval test written with > instead of >=
ElapsedStrictly(now, previous, interval) == USub(now, previous) > interval

\* currentMillis - previous >= interval
Elapsed(now, previous, interval) == USub(now, previous) >= interval

DriverCall(fn, r) == [fn |-> fn, result |-> r]

\* variant: a failed measurement zeroes the indices
MeasuredZeroOnError(cur, r) ==
    IF r.error THEN [voc |-> 0, nox |-> 0]
    ELSE [voc |-> r.voc, nox |-> r.nox]

\* if (error) { print } else { TVOC = ...; NOX = ...; }
Measured(cur, r) ==
    IF r.error THEN cur ELSE [voc |-> r.voc, nox |-> r.nox]

\* tempf = (tempc * 9 / 5) + 32, from tenths to hundredths of a degree
ToFahrenheit(c) == c * 18 + 3200

\* hum = result.rh: float -> int drops the fraction
ToInt(tenths) ==
    IF tenths >= 0 THEN tenths \div 10 ELSE 0 - ((0 - tenths) \div 10)

UpdateTVOC ==
    /\ pc = "tvoc"
    /\ IF Elapsed(currentMillis, previousTVOC, tvocInterval)
       THEN /\ previousTVOC' = UAdd(previousTVOC, tvocInterval)
            /\ IF conditioning_s > 0
               THEN \E r \in ConditioningResults :
                       /\ calls' = Append(calls,
                                       DriverCall("executeConditioning", r))
                       /\ conditioning_s' = conditioning_s - 1
                       /\ UNCHANGED << TVOC, NOX >>
               ELSE \E r \in MeasureResults :
                       LET m == Measured([voc |-> TVOC, nox |-> NOX], r)
                       IN  /\ calls' = Append(calls,
                                           DriverCall("measureRawSignals", r))
                           /\ TVOC' = m.voc
                           /\ NOX' = m.nox
                           /\ UNCHANGED conditioning_s
       ELSE UNCHANGED << previousTVOC, conditioning_s, TVOC, NOX, calls >>
    /\ pc' = "co2"
    /\ UNCHANGED << currentMillis, previousCo2, Co2, previousPm25, pm25,
                    previousTempHum, tempc, tempf, hum >>
    /\ UNCHANGED << displayVars, configVars, aqi_arg, aqi_ret >>

UpdateCo2 ==
    /\ pc = "co2"
    /\ IF Elapsed(currentMillis, previousCo2, co2Interval)
       THEN \E r \in CO2Results :
               /\ previousCo2' = UAdd(previousCo2, co2Interval)
               /\ calls' = Append(calls, DriverCall("getCO2_Raw", r))
               /\ Co2' = r
       ELSE UNCHANGED << previousCo2, Co2, calls >>
    /\ pc' = "pm25"
    /\ UNCHANGED << currentMillis, conditioning_s, previousTVOC, TVOC, NOX,
                    previousPm25, pm25, previousTempHum, tempc, tempf, hum >>
    /\ UNCHANGED << displayVars, configVars, aqi_arg, aqi_ret >>

UpdatePm25 ==
    /\ pc = "pm25"
    /\ IF Elapsed(currentMillis, previousPm25, pm25Interval)
       THEN \E r \in PM2Results :
               /\ previousPm25' = UAdd(previousPm25, pm25Interval)
               /\ calls' = Append(calls, DriverCall("getPM2_Raw", r))
               /\ pm25' = r
       ELSE UNCHANGED << previousPm25, pm25, calls >>
    /\ pc' = "temphum"
    /\ UNCHANGED << currentMillis, conditioning_s, previousTVOC, TVOC, NOX,
                    previousCo2, Co2, previousTempHum, tempc, tempf, hum >>
    /\ UNCHANGED << displayVars, configVars, aqi_arg, aqi_ret >>

UpdateTempHum ==
    /\ pc = "temphum"
    /\ IF Elapsed(currentMillis, previousTempHum, tempHumInterval)
       THEN \E r \in TempHumResults :
               /\ previousTempHum' = UAdd(previousTempHum, tempHumInterval)
               /\ calls' = Append(calls, DriverCall("periodicFetchData", r))
               /\ tempc' = r.t
               /\ tempf' = ToFahrenheit(r.t)
               /\ hum' = ToInt(r.rh)
       ELSE UNCHANGED << previousTempHum, tempc, tempf, hum, calls >>
    /\ pc' = "oled"
    /\ UNCHANGED << currentMillis, conditioning_s, previousTVOC, TVOC, NOX,
                    previousCo2, Co2, previousPm25, pm25 >>
    /\ UNCHANGED << displayVars, configVars, aqi_arg, aqi_ret >>

----------------------------------------------------------------------------
(* PM2.5 to US AQI.  Breakpoints are counted in tenths of a ug/m3, and the *)
(* float expression of calcAQI in tenths of an index point: every value it *)
(* takes for an int Cp is a multiple of 0.1 whose distance to the next     *)
(* whole number is 0, 0.2 or 0.5, far above the error of float arithmetic. *)

\* round(a / b) for a >= 0, b > 0: the nearest whole number, halves up
Round(a, b) == (2 * a + b) \div (2 * b)

\* int(round(a / b) * c + Il)
calcAQI(Cp, Ih, Il, BPh, BPl) ==
    LET a == (Ih - Il) * 10
        b == BPh - BPl
        c == Cp * 10 - BPl
    IN  ToInt(Round(a, b) * c + Il * 10)

\* variant: a negative raw value is reported as 0
PM_TO_AQI_US_Clamped(pm) ==
    IF pm < 0 THEN 0
    ELSE IF pm > 1000 THEN 500
    ELSE IF pm * 10 > 3505 THEN calcAQI(pm, 500, 401, 5004, 3505)
    ELSE IF pm * 10 > 2505 THEN calcAQI(pm, 400, 301, 3504, 2505)
    ELSE IF pm * 10 > 1505 THEN calcAQI(pm, 300, 201, 2504, 1505)
    ELSE IF pm * 10 > 555 THEN calcAQI(pm, 200, 151, 1504, 555)
    ELSE IF pm * 10 > 355 THEN calcAQI(pm, 150, 101, 554, 355)
    ELSE IF pm * 10 > 121 THEN calcAQI(pm, 100, 51, 354, 121)
    ELSE calcAQI(pm, 50, 0, 120, 0)

PM_TO_AQI_US(pm) ==
    IF pm < 0 THEN pm
    ELSE IF pm > 1000 THEN 500
    ELSE IF pm * 10 > 3505 THEN calcAQI(pm, 500, 401, 5004, 3505)
    ELSE IF pm * 10 > 2505 THEN calcAQI(pm, 400, 301, 3504, 2505)
    ELSE IF pm * 10 > 1505 THEN calcAQI(pm, 300, 201, 2504, 1505)
    ELSE IF pm * 10 > 555 THEN calcAQI(pm, 200, 151, 1504, 555)
    ELSE IF pm * 10 > 355 THEN calcAQI(pm, 150, 101, 554, 355)
    ELSE IF pm * 10 > 121 THEN calcAQI(pm, 100, 51, 354, 121)
    ELSE calcAQI(pm, 50, 0, 120, 0)

\* PM_TO_AQI_US(pm) called and its result kept
CallPM_TO_AQI_US ==
    /\ aqi_arg.made
    /\ ~aqi_ret.made
    /\ aqi_ret' = [made |-> TRUE, value |-> PM_TO_AQI_US(aqi_arg.value)]
    /\ UNCHANGED << pc, currentMillis, displayVars, sensorVars, calls,
                    configVars, aqi_arg >>

----------------------------------------------------------------------------
(* GET / and GET /metrics.                                                 *)

\* the HELP, TYPE and sample lines of one metric
Block(name, value) == [name |-> name, value |-> value]

\* variant: the temperature block is gated on the Celsius value
GenerateMetricsCelsiusGate ==
    (IF hasPM /\ pm25 >= 0
     THEN << Block("aqi", PM_TO_AQI_US(pm25)), Block("pm025", pm25) >>
     ELSE << >>)
    \o (IF hasSGP41 /\ NOX >= 0 THEN << Block("nox", NOX) >> ELSE << >>)
    \o (IF hasSGP41 /\ TVOC >= 0 THEN << Block("tvoc", TVOC) >> ELSE << >>)
    \o (IF hasCO2 /\ Co2 >= 0 THEN << Block("rco2", Co2) >> ELSE << >>)
    \o (IF hasSHT /\ tempc >= 0 THEN << Block("atmp", tempf) >> ELSE << >>)
    \o (IF hasSHT /\ hum >= 0 THEN << Block("rhum", hum) >> ELSE << >>)
    \o << Block("uptimesec", currentMillis \div Ms(1000)) >>

\* message, as the sequence of its blocks
GenerateMetrics ==
    (IF hasPM /\ pm25 >= 0
     THEN << Block("aqi", PM_TO_AQI_US(pm25)), Block("pm025", pm25) >>
     ELSE << >>)
    \o (IF hasSGP41 /\ NOX >= 0 THEN << Block("nox", NOX) >> ELSE << >>)
    \o (IF hasSGP41 /\ TVOC >= 0 THEN << Block("tvoc", TVOC) >> ELSE << >>)
    \o (IF hasCO2 /\ Co2 >= 0 THEN << Block("rco2", Co2) >> ELSE << >>)
    \o (IF hasSHT /\ tempf >= 0 THEN << Block("atmp", tempf) >> ELSE << >>)
    \o (IF hasSHT /\ hum >= 0 THEN << Block("rhum", hum) >> ELSE << >>)
    \o << Block("uptimesec", currentMillis \div Ms(1000)) >>

HandleRoot(route) ==
    /\ pc = "client"
    /\ request' = [route |-> route, args |-> << >>]
    /\ response' = [code |-> 200, body |-> GenerateMetrics]
    /\ pc' = "loop"
    /\ UNCHANGED << currentMillis, display_last_set, oledInterval,
                    previousOled, dimg, displayActive, displayCycle, custom,
                    drawn, tick, seen, sensorVars, calls, configVars,
                    aqi_arg, aqi_ret >>

----------------------------------------------------------------------------
(* loop().                                                                 *)

\* currentMillis = millis(); loop() goes on at `stage`
ReadMillis(t, stage) ==
    /\ pc = "loop"
    /\ t >= currentMillis
    /\ oledInterval = 0 \/ USub(t, previousOled) <= MaxLag * oledInterval
    /\ currentMillis' = t
    /\ pc' = stage
    /\ request' = NoRequest
    /\ response' = NoResponse
    /\ calls' = << >>
    /\ UNCHANGED << display_last_set, oledInterval, previousOled, dimg,
                    displayActive, displayCycle, custom, drawn, tick, seen >>
    /\ UNCHANGED << sensorVars, configVars, aqi_arg, aqi_ret >>

\* the record of what has been shown, after a tick at loop time now that
\* made the draw calls d
Seen(old, d, now) ==
    [at |-> now,
     screen |-> IF Len(d) = 0 THEN "none" ELSE d[Len(d)].screen,
     run |-> IF \E k \in 1 .. Len(d) : d[k] = DrawScreen1 THEN 0
             ELSE IF old.run < MaxRun THEN old.run + 1 ELSE MaxRun]

UpdateOLED ==
    /\ pc = "oled"
    /\ IF USub(currentMillis, previousOled) >= oledInterval
       THEN LET r == OledTick(displayCycle, displayActive, dimg,
                              currentMillis, display_last_set)
            IN  /\ previousOled' = UAdd(previousOled, oledInterval)
                /\ displayCycle' = r.cycle
                /\ displayActive' = r.cursor
                /\ drawn' = r.drawn
                /\ tick' = r.trace
                /\ seen' = Seen(seen, r.drawn, currentMillis)
       ELSE /\ drawn' = << >>
            /\ tick' = NoTick
            /\ UNCHANGED << previousOled, displayCycle, displayActive,
                            seen >>
    /\ pc' = "client"
    /\ UNCHANGED << currentMillis, display_last_set, oledInterval, dimg,
                    custom, request, response, sensorVars, calls, configVars,
                    aqi_arg, aqi_ret >>

\* server.handleClient() with no request pending
HandleNoClient ==
    /\ pc = "client"
    /\ pc' = "loop"
    /\ UNCHANGED << currentMillis, display_last_set, oledInterval,
                    previousOled, dimg, displayActive, displayCycle, custom,
                    drawn, tick, seen, request, response,
                    sensorVars, calls, configVars,
                    aqi_arg, aqi_ret >>

----------------------------------------------------------------------------
(* POST /uploadscreen.                                                     *)

\* variant: a wrong-length field does not deactivate the slot
WriteSlotKeepsActive(img, payload, now) ==
    IF payload.len = 0
    THEN [img EXCEPT !.active = FALSE]
    ELSE IF payload.len # DISPLAY_IMG_BYTE_LEN
    THEN img
    ELSE [display |-> payload.bytes, active |-> TRUE,
          last_updated |-> ToLong(now)]

\* variant: an empty field also clears the slot
WriteSlotEmptyClears(img, payload, now) ==
    IF payload.len = 0
    THEN [display |-> "zeros", active |-> FALSE, last_updated |-> 0]
    ELSE IF payload.len # DISPLAY_IMG_BYTE_LEN
    THEN [img EXCEPT !.active = FALSE]
    ELSE [display |-> payload.bytes, active |-> TRUE,
          last_updated |-> ToLong(now)]

\* one iteration of the for loop, for a slot whose d-field is present
WriteSlot(img, payload, now) ==
    IF payload.len = 0
    THEN [img EXCEPT !.active = FALSE]
    ELSE IF payload.len # DISPLAY_IMG_BYTE_LEN
    THEN [img EXCEPT !.active = FALSE]
    ELSE [display |-> payload.bytes, active |-> TRUE,
          last_updated |-> ToLong(now)]

SlotReport(i, payload) ==
    IF payload.len = 0 THEN [arg |-> i, line |-> "SUCCESS: emptied."]
    ELSE IF payload.len # DISPLAY_IMG_BYTE_LEN
    THEN [arg |-> i, line |-> "ERROR: invalid length."]
    ELSE [arg |-> i, line |-> "SUCCESS: updated."]

\* retval, built for i = 0 .. MAX_DISPLAY_IMG - 1 in order
RECURSIVE UploadReport(_, _)
UploadReport(args, i) ==
    IF i >= MAX_DISPLAY_IMG THEN << >>
    ELSE IF i \in DOMAIN args
    THEN << SlotReport(i, args[i]) >> \o UploadReport(args, i + 1)
    ELSE UploadReport(args, i + 1)

\* variant: the for loop stops after the first wrong-length field
UploadedImagesStopOnError(imgs, args, now) ==
    LET bad == { j \in DOMAIN args :
                   args[j].len # 0 /\ args[j].len # DISPLAY_IMG_BYTE_LEN }
    IN  [i \in Slots |->
            IF i \in DOMAIN args /\ (\A j \in bad : i <= j)
            THEN WriteSlot(imgs[i], args[i], now)
            ELSE imgs[i]]

\* dimg after the for loop has run over i = 0 .. MAX_DISPLAY_IMG - 1
UploadedImages(imgs, args, now) ==
    [i \in Slots |->
        IF i \in DOMAIN args THEN WriteSlot(imgs[i], args[i], now)
        ELSE imgs[i]]

HandleDisplayUpload(args) ==
    /\ pc = "client"
    /\ dimg' = UploadedImages(dimg, args, currentMillis)
    /\ request' = [route |-> "/uploadscreen", args |-> args]
    /\ response' = [code |-> 200, body |-> UploadReport(args, 0)]
    /\ pc' = "loop"
    /\ UNCHANGED << currentMillis, display_last_set, oledInterval,
                    previousOled, displayActive, displayCycle, custom,
                    drawn, tick, seen, sensorVars, calls, configVars,
                    aqi_arg, aqi_ret >>

----------------------------------------------------------------------------
(* POST /setscreen2.                                                       *)

\* variant: a field the request does not carry is emptied
ArgOrEmpty(args, n, cur) == IF n \in DOMAIN args THEN args[n] ELSE << >>

\* if (server.hasArg(n)) { custom_n = server.arg(n); }
ArgOrKeep(args, n, cur) == IF n \in DOMAIN args THEN args[n] ELSE cur

HandleDisplaySet(args) ==
    /\ pc = "client"
    /\ "oledInterval" \in DOMAIN args =>
          \/ ToInterval(args["oledInterval"]) = 0
          \/ USub(currentMillis, previousOled)
                <= MaxLag * ToInterval(args["oledInterval"])
    /\ display_last_set' = currentMillis
    /\ custom' = [n \in FieldNames |-> ArgOrKeep(args, n, custom[n])]
    /\ oledInterval' = IF "oledInterval" \in DOMAIN args
                       THEN ToInterval(args["oledInterval"])
                       ELSE oledInterval
    /\ request' = [route |-> "/setscreen2", args |-> args]
    /\ response' = [code |-> 200, body |-> << "Thank you." >>]
    /\ pc' = "loop"
    /\ UNCHANGED << currentMillis, previousOled, dimg, displayActive,
                    displayCycle, drawn, tick, seen, sensorVars, calls, configVars,
                    aqi_arg, aqi_ret >>

----------------------------------------------------------------------------

Next ==
    \/ \E t \in MillisReadings : ReadMillis(t, "oled")
    \/ UpdateOLED
    \/ HandleNoClient
    \/ \E args \in UploadRequests : HandleDisplayUpload(args)
    \/ \E args \in SetRequests : HandleDisplaySet(args)

Spec == Init /\ [][Next]_vars

NextSlots ==
    \/ \E t \in SlotMillisReadings : ReadMillis(t, "oled")
    \/ UpdateOLED
    \/ HandleNoClient
    \/ \E args \in SlotUploadRequests : HandleDisplayUpload(args)
    \/ \E args \in SlotSetRequests : HandleDisplaySet(args)

SpecSlots == Init /\ [][NextSlots]_vars

NextRemote ==
    \/ \E t \in RemoteMillisReadings : ReadMillis(t, "oled")
    \/ UpdateOLED
    \/ HandleNoClient
    \/ \E args \in RemoteSetRequests : HandleDisplaySet(args)

SpecRemote == Init /\ [][NextRemote]_vars

NextSampler ==
    \/ \E t \in SamplerMillisReadings : ReadMillis(t, "tvoc")
    \/ UpdateTVOC
    \/ UpdateCo2
    \/ UpdatePm25
    \/ UpdateTempHum
    \/ UpdateOLED
    \/ HandleNoClient
    \/ \E route \in MetricsRoutes : HandleRoot(route)

SpecSampler == Init /\ [][NextSampler]_vars

NextClock ==
    \/ \E t \in ClockMillisReadings : ReadMillis(t, "tvoc")
    \/ UpdateTVOC
    \/ UpdateCo2
    \/ UpdatePm25
    \/ UpdateTempHum
    \/ UpdateOLED
    \/ HandleNoClient
    \/ \E args \in ClockUploadRequests : HandleDisplayUpload(args)
    \/ \E args \in ClockSetRequests : HandleDisplaySet(args)

SpecClock == Init /\ [][NextClock]_vars

NextMetrics ==
    \/ \E t \in MetricsMillisReadings : ReadMillis(t, "client")
    \/ \E route \in MetricsRoutes : HandleRoot(route)

SpecMetrics == InitMetrics /\ [][NextMetrics]_vars

NextAqi == CallPM_TO_AQI_US

SpecAqi == InitAqi /\ [][NextAqi]_vars

TypeOK ==
    /\ pc \in {"loop", "tvoc", "co2", "pm25", "temphum", "oled", "client"}
    /\ currentMillis \in 0 .. (ULONG_MOD - 1)
    /\ displayCycle \in 0 .. 3
    /\ displayActive \in Slots

----------------------------------------------------------------------------
(* Properties of the display cycle.                                        *)

\* the remote summary is fresh: last_set > 0 && now - last_set < max_age
RemoteIsFresh(now, last_set) ==
    (last_set > 0) /\ (USub(now, last_set) < customDisplayMaxAge)

\* the latest tick had displayCycle = p at some point
LandedOn(p) == \E k \in 1 .. Len(tick.phases) : tick.phases[k] = p

\* updateOLED() has just run and its interval had elapsed
JustTicked == pc = "client" /\ tick.fired

DisplayableSlots(imgs, now) == { i \in Slots : IsDisplayable(imgs[i], now) }

\* C1: every display tick performs exactly one render action, which is the
\* built-in summary, the remote summary or a custom bitmap.
ExactlyOneRenderPerTick ==
    tick.fired =>
        /\ Len(drawn) = 1
        /\ \/ drawn[1] = DrawScreen1
           \/ drawn[1] = DrawScreen2
           \/ \E i \in Slots : drawn[1] = DrawCustomScreen(i)

\* a tick that fell from phase 1 (no displayable slot) to the remote summary
RenderAfterFallbackReached ==
    JustTicked /\ tick.phases = << 1, 2 >> /\ drawn = << DrawScreen2 >>

\* C2: a tick that lands on phase 2 while the remote summary is fresh
\* renders the remote-summary screen and leaves displayCycle = 2.
FreshRemoteIsRendered ==
    (JustTicked /\ LandedOn(2)
        /\ RemoteIsFresh(currentMillis, display_last_set))
    => (drawn = << DrawScreen2 >> /\ displayCycle = 2)

\* C3: the remote-summary screen is rendered only if the remote summary is
\* fresh at that tick; a tick landing on phase 2 with a summary that was
\* never set or is max_age or more old ends in phase 0 with the built-in
\* summary.
RemoteRenderedOnlyIfFresh ==
    JustTicked =>
        /\ (\E k \in 1 .. Len(drawn) : drawn[k] = DrawScreen2)
              => RemoteIsFresh(currentMillis, display_last_set)
        /\ (LandedOn(2) /\ ~RemoteIsFresh(currentMillis, display_last_set))
              => (displayCycle = 0 /\ drawn = << DrawScreen1 >>)

\* C4 (as stated): after the cyclic advance the phase changes by fallback at
\* most once more in a tick, and the ring is scanned at most once.
AtMostOneFallbackHop ==
    tick.fired => (Len(tick.phases) <= 2 /\ tick.scans <= 1)

\* C4 (amended): after the cyclic advance the phase changes by fallback at
\* most twice in a tick, once from a custom phase without a displayable slot
\* to the next phase and once from phase 2 to phase 0, and the ring is
\* scanned at most once.
AtMostTwoFallbackHops ==
    tick.fired =>
        /\ tick.phases \in { << 0 >>, << 1 >>, << 2 >>, << 3 >>,
                             << 1, 2 >>, << 2, 0 >>, << 3, 0 >>,
                             << 1, 2, 0 >> }
        /\ tick.phases[Len(tick.phases)] = displayCycle
        /\ tick.scans <= 1
        /\ tick.examined <= MAX_DISPLAY_IMG

\* a tick with both fallbacks: phase 1 without a slot, phase 2 not shown
TwoFallbackHopsReached ==
    JustTicked /\ tick.phases = << 1, 2, 0 >> /\ tick.scans = 1

\* C5: with no displayable slot and a remote summary that is not fresh,
\* every tick ends in phase 0 and renders the built-in summary.
IdleTicksRenderBuiltIn ==
    (JustTicked
        /\ DisplayableSlots(dimg, currentMillis) = {}
        /\ ~RemoteIsFresh(currentMillis, display_last_set))
    => (displayCycle = 0 /\ drawn = << DrawScreen1 >>)

----------------------------------------------------------------------------
(* Properties of the slot store and of the ring scan.                      *)

\* the step is HandleDisplayUpload
UploadStep == pc = "client" /\ request'.route = "/uploadscreen"

\* the step is an updateOLED() tick that scans the ring
ScanStep == pc = "oled" /\ tick'.fired /\ tick'.scans = 1

Reported(resp, i, text) ==
    \E k \in 1 .. Len(resp.body) : resp.body[k] = [arg |-> i, line |-> text]

\* C6: a tick renders the custom bitmap of slot i only if slot i is active
\* and its age now - last_updated lies in [0, max_age): never at
\* now >= last_updated + max_age and never while the slot is inactive.
CustomRenderedOnlyIfDisplayable ==
    JustTicked =>
        \A k \in 1 .. Len(drawn) :
            drawn[k].screen = "drawCustomScreen" =>
                LET img == dimg[drawn[k].index]
                    t == ToULong(img.last_updated)
                IN  /\ img.active
                    /\ t <= currentMillis
                    /\ currentMillis < t + customDisplayMaxAge

\* a bitmap rendered at the last clock reading before it expires
CustomRenderedBeforeExpiryReached ==
    /\ JustTicked
    /\ \E i \in Slots :
          /\ drawn = << DrawCustomScreen(i) >>
          /\ currentMillis
               = ToULong(dimg[i].last_updated) + customDisplayMaxAge - Ms(5000)

\* C7: all slots are inactive at startup; a POST /uploadscreen makes each
\* slot it names active exactly if the field is DISPLAY_IMG_BYTE_LEN bytes
\* long, storing the payload and the loop time in that case; nothing else
\* changes a slot's active flag.
ActiveIffExactLength ==
    /\ \A i \in Slots : ~dimg[i].active
    /\ [][ \A i \in Slots :
             IF UploadStep /\ i \in DOMAIN request'.args
             THEN LET p == request'.args[i]
                  IN  /\ dimg'[i].active <=> (p.len = 1024)
                      /\ (p.len = 1024) =>
                            /\ dimg'[i].display = p.bytes
                            /\ ToULong(dimg'[i].last_updated) = currentMillis
             ELSE dimg'[i].active = dimg[i].active ]_vars

\* an exact-length write at a loop time above LONG_MAX, which the long
\* last_updated holds as a negative number
ExactLengthWriteReached ==
    /\ pc = "loop"
    /\ request.route = "/uploadscreen"
    /\ \E i \in DOMAIN request.args :
          /\ request.args[i] = BitmapA
          /\ dimg[i].active
          /\ dimg[i].display = "bitmapA"
          /\ dimg[i].last_updated < 0
          /\ ToULong(dimg[i].last_updated) = currentMillis

\* C8: a zero-length field reports success, deactivates the slot so that it
\* is displayable at no time, and leaves its bytes and last_updated alone.
EmptyWriteDeactivates ==
    [][ UploadStep =>
          \A i \in DOMAIN request'.args :
              request'.args[i].len = 0 =>
                  /\ response'.code = 200
                  /\ Reported(response', i, "SUCCESS: emptied.")
                  /\ ~dimg'[i].active
                  /\ \A t \in SlotMillisReadings : ~IsDisplayable(dimg'[i], t)
                  /\ dimg'[i].display = dimg[i].display
                  /\ dimg'[i].last_updated = dimg[i].last_updated ]_vars

\* a slot emptied while its bitmap was one reading old
EmptyWriteReached ==
    /\ pc = "loop"
    /\ request.route = "/uploadscreen"
    /\ \E i \in DOMAIN request.args :
          /\ request.args[i] = EmptyPayload
          /\ dimg[i] = [display |-> "bitmapA", active |-> FALSE,
                        last_updated |-> Ms(5000)]
          /\ currentMillis = Ms(3600000)

\* C9: in one POST /uploadscreen each named slot's outcome depends on its
\* own field only: a non-empty field of the wrong length reports an error,
\* deactivates the slot and copies nothing; an exact-length field in the
\* same request is stored and activated; unnamed slots are unchanged.
UploadFieldsIndependent ==
    [][ UploadStep =>
          \A i \in Slots :
              IF i \notin DOMAIN request'.args
              THEN /\ dimg'[i] = dimg[i]
                   /\ \A k \in 1 .. Len(response'.body) :
                          response'.body[k].arg # i
              ELSE LET p == request'.args[i]
                   IN  /\ (p.len # 0 /\ p.len # 1024) =>
                             /\ Reported(response', i, "ERROR: invalid length.")
                             /\ ~dimg'[i].active
                             /\ dimg'[i].display = dimg[i].display
                             /\ dimg'[i].last_updated = dimg[i].last_updated
                       /\ (p.len = 1024) =>
                             /\ Reported(response', i, "SUCCESS: updated.")
                             /\ dimg'[i].active
                             /\ dimg'[i].display = p.bytes
                             /\ ToULong(dimg'[i].last_updated) = currentMillis
          ]_vars

\* one request with a wrong-length field for a slot that held a bitmap and
\* an exact-length field for a higher slot
MixedUploadReached ==
    /\ pc = "loop"
    /\ request.route = "/uploadscreen"
    /\ request.args = (2 :> ShortPayload @@ 15 :> BitmapB)
    /\ currentMillis = Ms(3605000)
    /\ dimg[2] = [display |-> "bitmapA", active |-> FALSE,
                  last_updated |-> Ms(5000)]
    /\ dimg[15] = [display |-> "bitmapB", active |-> TRUE,
                   last_updated |-> Ms(3605000)]
    /\ response.body = << [arg |-> 2, line |-> "ERROR: invalid length."],
                          [arg |-> 15, line |-> "SUCCESS: updated."] >>

\* the first member of S in increasing cyclic order strictly after c
\* (c itself comes last)
CyclicNext(c, S) ==
    CHOOSE s \in S :
        \A u \in S : (s - c - 1 + MAX_DISPLAY_IMG) % MAX_DISPLAY_IMG
                       <= (u - c - 1 + MAX_DISPLAY_IMG) % MAX_DISPLAY_IMG

\* C10: a ring scan over a non-empty set S of displayable slots moves the
\* cursor from c to the first member of S strictly after c in cyclic order
\* and renders it; nothing else moves the cursor, so successive custom
\* renders walk S in increasing cyclic order.
RingScanRotates ==
    [][ /\ (displayActive' # displayActive) => ScanStep
        /\ ScanStep =>
             LET S == DisplayableSlots(dimg, currentMillis)
             IN  S # {} =>
                    /\ tick'.from = displayActive
                    /\ displayActive' = CyclicNext(displayActive, S)
                    /\ drawn' = << DrawCustomScreen(displayActive') >> ]_vars

\* with S = {2, 7, 15} and the cursor on 15, the scan wrapped round to 2
RingWrappedReached ==
    /\ JustTicked
    /\ DisplayableSlots(dimg, currentMillis) = {2, 7, 15}
    /\ tick.from = 15
    /\ displayActive = 2
    /\ drawn = << DrawCustomScreen(2) >>

\* C11: a ring scan that finds no displayable slot examines
\* MAX_DISPLAY_IMG slots, one per ring position, renders no bitmap (the
\* tick falls through to the next phase) and leaves the cursor where it was
\* before the scan, every time it is repeated.
EmptyScanKeepsCursor ==
    [][ (ScanStep /\ DisplayableSlots(dimg, currentMillis) = {}) =>
            /\ tick'.from = displayActive
            /\ tick'.examined = MAX_DISPLAY_IMG
            /\ displayActive' = displayActive
            /\ \A k \in 1 .. Len(drawn') :
                   drawn'[k].screen # "drawCustomScreen"
            /\ Len(tick'.phases) >= 2 ]_vars

\* a scan that started on slot 7 after every bitmap had expired or been
\* deactivated, and came back to slot 7
EmptyScanReached ==
    /\ JustTicked
    /\ tick.scans = 1
    /\ tick.examined = MAX_DISPLAY_IMG
    /\ tick.from = 7
    /\ displayActive = 7
    /\ DisplayableSlots(dimg, currentMillis) = {}

----------------------------------------------------------------------------
(* Properties of the remote summary state.                                 *)

\* the step is HandleDisplaySet
SetStep == pc = "client" /\ request'.route = "/setscreen2"

\* C12: a POST /setscreen2 overwrites exactly the summary fields and the
\* interval that the request carries, leaves absent ones at their prior
\* values, and sets display_last_set to the loop time whatever the request
\* carries; nothing else changes display_last_set or a summary field.
SetOverwritesPresentFieldsOnly ==
    [][ IF SetStep
        THEN LET a == request'.args
             IN  /\ \A n \in FieldNames :
                      custom'[n] = IF n \in DOMAIN a THEN a[n] ELSE custom[n]
                 /\ oledInterval' = IF "oledInterval" \in DOMAIN a
                                    THEN ToInterval(a["oledInterval"])
                                    ELSE oledInterval
                 /\ display_last_set' = currentMillis
        ELSE /\ custom' = custom
             /\ oledInterval' = oledInterval
             /\ display_last_set' = display_last_set ]_vars

\* {watt} in the loop iteration at 100 ms, then {wattavg} in the one at
\* 200 ms: both values are stored and display_last_set is 200 ms
TwoPartialSetsReached ==
    /\ pc = "loop"
    /\ request = [route |-> "/setscreen2",
                  args |-> [n \in {"wattavg"} |-> <<"6">>]]
    /\ currentMillis = Ms(200)
    /\ custom["watt"] = <<"5">>
    /\ custom["wattavg"] = <<"6">>
    /\ display_last_set = Ms(200)

\* a request carrying no recognized field stamped display_last_set
UnrecognizedSetStampsReached ==
    /\ pc = "loop"
    /\ request.route = "/setscreen2"
    /\ DOMAIN request.args = {"colour"}
    /\ custom = [n \in FieldNames |-> << >>]
    /\ display_last_set = Ms(100)

----------------------------------------------------------------------------
(* Properties of the sensor refreshes.                                     *)

\* what one step may do to a quantity with refresh function at `stage`:
\* last_refresh p -> pn and value v -> vn
RefreshFrame(stage, interval, p, pn, v, vn) ==
    IF pc = stage /\ USub(currentMillis, p) >= interval
    THEN pn = (p + interval) % ULONG_MOD
    ELSE pn = p /\ vn = v

\* C13: a loop iteration overwrites a quantity's stored value only in that
\* quantity's own refresh and only if now - last_refresh >= interval, and
\* then last_refresh grows by exactly one interval; otherwise value and
\* last_refresh are unchanged, so no refresh touches another quantity.
RefreshOnlyWhenDue ==
    [][ /\ RefreshFrame("tvoc", Ms(1000), previousTVOC, previousTVOC',
                        << TVOC, NOX >>, << TVOC', NOX' >>)
        /\ RefreshFrame("co2", Ms(5000), previousCo2, previousCo2', Co2, Co2')
        /\ RefreshFrame("pm25", Ms(5000), previousPm25, previousPm25',
                        pm25, pm25')
        /\ RefreshFrame("temphum", Ms(2500), previousTempHum,
                        previousTempHum', << tempc, tempf, hum >>,
                        << tempc', tempf', hum' >>) ]_vars

\* the CO2 refresh of the iteration at 12000 ms stored a new value and
\* moved previousCo2 from 5000 to 10000, while the TVOC refresh of the same
\* iteration made its call and the PM2.5 value is still the older one
LateRefreshReached ==
    /\ pc = "pm25"
    /\ currentMillis = Ms(12000)
    /\ previousCo2 = Ms(10000)
    /\ Len(calls) = 2
    /\ calls[2] = DriverCall("getCO2_Raw", 400)
    /\ Co2 = 400
    /\ previousPm25 = Ms(5000)
    /\ pm25 = -1

\* the step made a driver call
CallStep == Len(calls') = Len(calls) + 1

LastCall(cs) == cs[Len(cs)]

----------------------------------------------------------------------------
(* Properties of PM_TO_AQI_US.                                             *)

\* C15: for ints a <= b in 0 .. 1000, PM_TO_AQI_US(a) <= PM_TO_AQI_US(b).
AqiNonDecreasing ==
    (aqi_ret.made /\ aqi_arg.value \in 0 .. 1000) =>
        \A a \in 0 .. aqi_arg.value : PM_TO_AQI_US(a) <= aqi_ret.value

\* C16: PM_TO_AQI_US returns its argument for every raw < 0 and 500 for
\* every raw > 1000.
AqiSentinelAndCap ==
    aqi_ret.made =>
        /\ aqi_arg.value < 0 => aqi_ret.value = aqi_arg.value
        /\ aqi_arg.value > 1000 => aqi_ret.value = 500

\* PM_TO_AQI_US(-1) has returned -1
AqiSentinelReached ==
    aqi_arg = [made |-> TRUE, value |-> 0 - 1] /\ aqi_ret = aqi_arg

\* PM_TO_AQI_US(2000) has returned 500
AqiCapReached ==
    /\ aqi_arg = [made |-> TRUE, value |-> 2000]
    /\ aqi_ret = [made |-> TRUE, value |-> 500]

----------------------------------------------------------------------------
(* Properties of the metrics output.                                       *)

MetricOrder ==
    << "aqi", "pm025", "nox", "tvoc", "rco2", "atmp", "rhum", "uptimesec" >>

\* the position of a block name in MetricOrder (0 if it is not a metric)
MetricRank(name) ==
    IF \E k \in 1 .. Len(MetricOrder) : MetricOrder[k] = name
    THEN CHOOSE k \in 1 .. Len(MetricOrder) : MetricOrder[k] = name
    ELSE 0

\* the metrics message just sent has a block called name
Emitted(name) ==
    \E k \in 1 .. Len(response.body) : response.body[k].name = name

\* HandleRoot has just answered
MetricsSent == pc = "loop" /\ request.route \in MetricsRoutes

\* C17: the metrics output has a quantity's block exactly if the
\* quantity's hardware option is set and its current value is not
\* negative (aqi and pm025 on pm25, atmp on the Fahrenheit temperature);
\* the uptimesec block is always there; blocks come in the order aqi,
\* pm025, nox, tvoc, rco2, atmp, rhum, uptimesec, each at most once.
MetricsBlocksGated ==
    MetricsSent =>
        /\ Emitted("aqi") <=> (hasPM /\ pm25 >= 0)
        /\ Emitted("pm025") <=> (hasPM /\ pm25 >= 0)
        /\ Emitted("nox") <=> (hasSGP41 /\ NOX >= 0)
        /\ Emitted("tvoc") <=> (hasSGP41 /\ TVOC >= 0)
        /\ Emitted("rco2") <=> (hasCO2 /\ Co2 >= 0)
        /\ Emitted("atmp") <=> (hasSHT /\ tempf >= 0)
        /\ Emitted("rhum") <=> (hasSHT /\ hum >= 0)
        /\ Emitted("uptimesec")
        /\ \A k \in 1 .. Len(response.body) :
               MetricRank(response.body[k].name) > 0
        /\ \A j, k \in 1 .. Len(response.body) :
               j < k => MetricRank(response.body[j].name)
                          < MetricRank(response.body[k].name)

\* a build without any sensor answers with the uptime block alone
UptimeOnlyReached ==
    /\ MetricsSent
    /\ ~hasPM /\ ~hasCO2 /\ ~hasSHT /\ ~hasSGP41
    /\ pm25 = 12 /\ Co2 = 400
    /\ currentMillis = Ms(5000)
    /\ response.body = << Block("uptimesec", 5) >>

\* some blocks left out for a missing option, some for a negative value,
\* and the temperature block there for -5.0 C = 23.00 F
MixedMetricsReached ==
    /\ MetricsSent
    /\ hasPM /\ ~hasCO2 /\ hasSHT /\ hasSGP41
    /\ pm25 = 12 /\ NOX = 0 - 1 /\ TVOC = 100 /\ Co2 = 400
    /\ tempc = 0 - 50 /\ hum = 0 - 1
    /\ response.body = << Block("aqi", 48), Block("pm025", 12),
                          Block("tvoc", 100), Block("atmp", 2300),
                          Block("uptimesec", 0) >>

----------------------------------------------------------------------------
(* Properties of the sequence of ticks.                                    *)

\* the step is an updateOLED() whose interval had elapsed
TickStep == pc = "oled" /\ tick'.fired

\* C18: for any two consecutive display ticks, the loop time of the later
\* one is at least oledInterval after the loop time of the earlier one.
TicksAnIntervalApart ==
    [][ (TickStep /\ seen.at >= 0) =>
            currentMillis - seen.at >= oledInterval ]_vars

\* C19: at most 3 consecutive ticks render something other than the
\* built-in summary, so any 4 consecutive ticks render it at least once,
\* and no two consecutive ticks both render a custom bitmap.
BuiltInEveryFourTicks ==
    [][ TickStep =>
          /\ seen'.run <= 3
          /\ ~(seen.screen = "drawCustomScreen"
                 /\ seen'.screen = "drawCustomScreen") ]_vars

\* three ticks in a row without the built-in summary: a bitmap, the remote
\* summary, a bitmap
ThreeTicksWithoutBuiltInReached ==
    /\ JustTicked
    /\ seen.run = 3
    /\ displayCycle = 3
    /\ \E i \in Slots : drawn = << DrawCustomScreen(i) >>

\* C20: after a tick the phase tells which screen the tick rendered: 0 the
\* built-in summary, 2 the remote summary, 1 or 3 the bitmap of the slot
\* the cursor is on; displayCycle is in 0 .. 3 and displayActive in
\* 0 .. MAX_DISPLAY_IMG - 1 in every state.
PhaseTellsScreen ==
    /\ displayCycle \in 0 .. 3
    /\ displayActive \in 0 .. (MAX_DISPLAY_IMG - 1)
    /\ tick.fired =>
          /\ displayCycle = 0 <=> drawn = << DrawScreen1 >>
          /\ displayCycle = 2 <=> drawn = << DrawScreen2 >>
          /\ displayCycle \in {1, 3}
                <=> drawn = << DrawCustomScreen(displayActive) >>
    /\ seen.at >= 0 =>
          /\ displayCycle = 0 <=> seen.screen = "drawScreen1"
          /\ displayCycle = 2 <=> seen.screen = "drawScreen2"
          /\ displayCycle \in {1, 3} <=> seen.screen = "drawCustomScreen"

\* a tick that went from phase 2 to phase 3 and rendered the bitmap of
\* slot 7, which the cursor is on
PhaseThreeOnSlotReached ==
    /\ JustTicked
    /\ displayCycle = 3
    /\ displayActive = 7
    /\ drawn = << DrawCustomScreen(7) >>
    /\ tick.phases = << 3 >>

----------------------------------------------------------------------------
(* Properties of the stored timestamps.                                    *)

\* C21: while the millisecond clock has not wrapped, no stored timestamp
\* is ahead of the loop clock: previousOled, previousTVOC, previousCo2,
\* previousPm25, previousTempHum, display_last_set and the last_updated of
\* every active slot are at most currentMillis.
NoTimestampAhead ==
    /\ previousOled <= currentMillis
    /\ previousTVOC <= currentMillis
    /\ previousCo2 <= currentMillis
    /\ previousPm25 <= currentMillis
    /\ previousTempHum <= currentMillis
    /\ display_last_set <= currentMillis
    /\ \A i \in Slots :
          dimg[i].active =>
              /\ dimg[i].last_updated <= currentMillis
              /\ ToULong(dimg[i].last_updated) <= currentMillis

\* oledInterval was set to 2500 ms between the ticks at 5000 ms and at
\* 10000 ms; the display timer, the CO2 timer and the temperature timer
\* have caught up with the loop clock exactly, and slot 7 and the remote
\* summary carry earlier stamps
TimersCaughtUpReached ==
    /\ pc = "client"
    /\ tick.fired
    /\ oledInterval = Ms(2500)
    /\ currentMillis = Ms(10000)
    /\ previousOled = Ms(10000)
    /\ previousCo2 = Ms(10000)
    /\ previousTempHum = Ms(10000)
    /\ previousTVOC < Ms(10000)
    /\ display_last_set = Ms(5000)
    /\ dimg[7].active
    /\ dimg[7].last_updated = Ms(2500)

----------------------------------------------------------------------------
(* The range of PM_TO_AQI_US.                                              *)

\* C22: for every int raw in 0 .. 1000, PM_TO_AQI_US(raw) is in 0 .. 500,
\* and with the cap for raw > 1000 no raw >= 0 gives an index above 500.
AqiWithinScale ==
    (aqi_ret.made /\ aqi_arg.value >= 0) => aqi_ret.value \in 0 .. 500
====
